---- MODULE Spec2Model ----
(***************************************************************************)
(* Smart AC front end: the App component's state (App.tsx), the prediction *)
(* form and temperature card that drive it, and the remote prediction      *)
(* client (services/api.ts), as a state machine.                           *)
(*                                                                         *)
(* JavaScript values are tagged records, so that null, undefined, numbers  *)
(* and strings stay distinct: Null, Undefined, Num(n), Str(s).             *)
(***************************************************************************)
EXTENDS Integers, Sequences, FiniteSets, TLC

(* ---------------- bounds of the model ---------------- *)
MaxRequests == 2
MaxEdits == 1

(* ---------------- JavaScript values ---------------- *)
Null == [tag |-> "null"]
Undefined == [tag |-> "undefined"]
NaN == [tag |-> "NaN"]
Num(n) == [tag |-> "number", val |-> n]
Str(s) == [tag |-> "string", val |-> s]

\* ToBoolean, as used by the || operator
Truthy(v) ==
  CASE v.tag = "string" -> v.val # ""
    [] v.tag = "number" -> v.val # 0
    [] OTHER -> FALSE

\* a || b
OrElse(a, b) == IF Truthy(a) THEN a ELSE b

(* ---------------- utils/constants ---------------- *)
\* A label and a category sent to the predictor are sequences of characters.
Sunny == <<"S", "u", "n", "n", "y">>
Cloudy == <<"C", "l", "o", "u", "d", "y">>
Rainy == <<"R", "a", "i", "n", "y">>
Snowy == <<"S", "n", "o", "w", "y">>
Foggy == <<"F", "o", "g", "g", "y">>
Stormy == <<"S", "t", "o", "r", "m", "y">>
Windy == <<"W", "i", "n", "d", "y">>
PartlyCloudy == <<"P", "a", "r", "t", "l", "y", " ", "C", "l", "o", "u", "d", "y">>
Morning == <<"M", "o", "r", "n", "i", "n", "g">>
Afternoon == <<"A", "f", "t", "e", "r", "n", "o", "o", "n">>
Evening == <<"E", "v", "e", "n", "i", "n", "g">>
Night == <<"N", "i", "g", "h", "t">>

weatherOptions ==
  << [value |-> "sunny",        label |-> Sunny],
     [value |-> "partlyCloudy", label |-> PartlyCloudy],
     [value |-> "cloudy",       label |-> Cloudy],
     [value |-> "rainy",        label |-> Rainy],
     [value |-> "stormy",       label |-> Stormy],
     [value |-> "snowy",        label |-> Snowy],
     [value |-> "windy",        label |-> Windy],
     [value |-> "foggy",        label |-> Foggy] >>

timeOptions ==
  << [value |-> "morning",   label |-> Morning \o <<" ", "(", "6", "A", "M", "-", "1", "2", "P", "M", ")">>],
     [value |-> "afternoon", label |-> Afternoon \o <<" ", "(", "1", "2", "P", "M", "-", "5", "P", "M", ")">>],
     [value |-> "evening",   label |-> Evening \o <<" ", "(", "5", "P", "M", "-", "1", "0", "P", "M", ")">>],
     [value |-> "night",     label |-> Night \o <<" ", "(", "1", "0", "P", "M", "-", "6", "A", "M", ")">>] >>

initialEnvironmentalData ==
  [ indoorTemp |-> 26, outdoorTemp |-> 30, humidity |-> 60, occupancy |-> 2,
    weatherCondition |-> "sunny", timeOfDay |-> "afternoon",
    sunlightIntensity |-> 7, roomSize |-> 25, windowOpen |-> FALSE ]

\* Array.prototype.find: the first option whose value is v, or Undefined
Find(options, v) ==
  LET hits == {i \in 1..Len(options) : options[i].value = v}
  IN  IF hits = {} THEN Undefined
      ELSE options[CHOOSE i \in hits : \A j \in hits : i <= j]

\* String.prototype.split(sep), sep one character: the pieces between the
\* occurrences of sep; current is the piece being read
RECURSIVE SplitFrom(_, _, _)
SplitFrom(chars, sep, current) ==
  IF chars = <<>> THEN <<current>>
  ELSE IF Head(chars) = sep THEN <<current>> \o SplitFrom(Tail(chars), sep, <<>>)
  ELSE SplitFrom(Tail(chars), sep, Append(current, Head(chars)))

Split(chars, sep) == SplitFrom(chars, sep, <<>>)

(* ---------------- handlePredict: EnvironmentalData -> PredictionInput ---- *)
WeatherConditionApiNoStormy(weatherCondition) ==
  LET selectedWeatherOption == Find(weatherOptions, weatherCondition)
  IN  IF selectedWeatherOption = Undefined THEN Cloudy
      ELSE LET label == selectedWeatherOption.label
           IN  IF label \in {Sunny, Cloudy, Rainy, Snowy, Foggy} THEN label ELSE Cloudy

WeatherConditionApi(weatherCondition) ==
  LET selectedWeatherOption == Find(weatherOptions, weatherCondition)
  IN  IF selectedWeatherOption = Undefined THEN Cloudy
      ELSE LET label == selectedWeatherOption.label
           IN  IF label \in {Sunny, Cloudy, Rainy, Snowy, Foggy}
                 THEN label
               ELSE IF label = PartlyCloudy \/ label = Windy
                 THEN Cloudy
               ELSE IF label = Stormy
                 THEN Rainy
               ELSE Cloudy

TimeOfDayApiWholeLabel(timeOfDay) ==
  LET selectedTimeOption == Find(timeOptions, timeOfDay)
  IN  IF selectedTimeOption = Undefined THEN Afternoon
      ELSE LET labelPart == selectedTimeOption.label
           IN  IF labelPart \in {Morning, Afternoon, Evening, Night}
                 THEN labelPart
               ELSE Afternoon

TimeOfDayApi(timeOfDay) ==
  LET selectedTimeOption == Find(timeOptions, timeOfDay)
  IN  IF selectedTimeOption = Undefined THEN Afternoon
      ELSE LET labelPart == Split(selectedTimeOption.label, " ")[1]
           IN  IF labelPart \in {Morning, Afternoon, Evening, Night}
                 THEN labelPart
               ELSE Afternoon

RoomSizeApiInclusive(roomSize) ==
  IF roomSize <= 15 THEN "Small"
  ELSE IF roomSize <= 30 THEN "Medium"
  ELSE "Large"

RoomSizeApi(roomSize) ==
  IF roomSize < 15 THEN "Small"
  ELSE IF roomSize < 30 THEN "Medium"
  ELSE "Large"

ApiInput(data) ==
  [ Indoor_Temperature  |-> data.indoorTemp,
    Outdoor_Temperature |-> data.outdoorTemp,
    Humidity            |-> data.humidity,
    Occupancy           |-> data.occupancy,
    Weather_Condition   |-> WeatherConditionApi(data.weatherCondition),
    Time_of_Day         |-> TimeOfDayApi(data.timeOfDay),
    Sunlight_Intensity  |-> data.sunlightIntensity,
    Room_Size           |-> RoomSizeApi(data.roomSize),
    Window_State        |-> IF data.windowOpen THEN "Open" ELSE "Closed" ]

(* ---------------- the network, as the client sees it ---------------- *)
\* What one exchange delivers: fetch rejects (no response at all), or a
\* response with a status and a body.  A body is not JSON, the JSON value
\* null, or a JSON object with optional fields error and
\* predicted_ideal_temperature (Undefined when the field is absent).
Statuses == {200, 400, 502}
ServerMessages == {"invalid payload"}
PredictedTemperatures == {22, 24}
\* Messages of the engine's own errors are implementation defined.
FetchFailureMessages == {"Failed to fetch"}
JsonSyntaxErrorMessages == {"Unexpected token < in JSON at position 0"}
NullPropertyMessage(prop) == "Cannot read properties of null (reading '" \o prop \o "')"

ErrorFields == {Undefined, Str("")} \cup {Str(m) : m \in ServerMessages}
TemperatureFields == {Undefined} \cup {Num(t) : t \in PredictedTemperatures}

JsonObject(e, t) == [kind |-> "object", error |-> e, predicted_ideal_temperature |-> t]
Bodies ==
  {[kind |-> "nonjson", syntaxError |-> m] : m \in JsonSyntaxErrorMessages}
    \cup {[kind |-> "null"]}
    \cup {JsonObject(e, t) : e \in ErrorFields, t \in TemperatureFields}

NoResponse(m) == [kind |-> "noResponse", message |-> m]
Response(s, b) == [kind |-> "response", status |-> s, body |-> b]
NoExchange == [kind |-> "none"]

\* Response.ok
Ok(status) == status >= 200 /\ status <= 299

(* ---------------- services/api.ts ---------------- *)
\* A completion is a returned value or a thrown value.
Return(v) == [thrown |-> FALSE, value |-> v]
Throw(e) == [thrown |-> TRUE, value |-> e]
ErrorObject(m) == [tag |-> "Error", message |-> m]
InstanceOfError(e) == e.tag = "Error"

UnknownErrorMessage == "An unknown error occurred while fetching prediction."
StatusMessage(status) == "API request failed with status " \o ToString(status)

\* await response.json()
ResponseJson(body) ==
  CASE body.kind = "nonjson" -> Throw(ErrorObject(body.syntaxError))
    [] body.kind = "null"    -> Return(Null)
    [] OTHER                 -> Return(body)

\* errorData.error || `API request failed with status ${response.status}`
StatusOnlyMessage(errorData, status) == StatusMessage(status)
ErrorDataMessage(errorData, status) ==
  OrElse(errorData.error, Str(StatusMessage(status))).val

\* the try block of getIdealTemperaturePrediction
TryBlock(exchange) ==
  IF exchange.kind = "noResponse"
    THEN Throw(ErrorObject(exchange.message))
  ELSE IF ~Ok(exchange.status)
    THEN LET errorData == ResponseJson(exchange.body)
         IN  IF errorData.thrown THEN errorData
             ELSE IF errorData.value = Null
               THEN Throw(ErrorObject(NullPropertyMessage("error")))
             ELSE Throw(ErrorObject(ErrorDataMessage(errorData.value, exchange.status)))
  ELSE ResponseJson(exchange.body)

\* the catch block of getIdealTemperaturePrediction
CatchBlock(completion) ==
  IF ~completion.thrown THEN completion
  ELSE IF InstanceOfError(completion.value) THEN completion
  ELSE Throw(ErrorObject(UnknownErrorMessage))

getIdealTemperaturePrediction(exchange) == CatchBlock(TryBlock(exchange))

(* ---------------- TemperatureCard: parseFloat of the input ------------- *)
\* The input's value is a sequence of characters.
Digits == <<"0", "1", "2", "3", "4", "5", "6", "7", "8", "9">>
IsDigit(c) == \E d \in 1..10 : Digits[d] = c
DigitValue(c) == (CHOOSE d \in 1..10 : Digits[d] = c) - 1

\* the value of the longest prefix of digits of chars, after acc
RECURSIVE ParseDigits(_, _)
ParseDigits(chars, acc) ==
  IF chars = <<>> \/ ~IsDigit(Head(chars)) THEN acc
  ELSE ParseDigits(Tail(chars), 10 * acc + DigitValue(Head(chars)))

\* parseFloat on an optional sign followed by digits; NaN without a digit
ParseFloat(chars) ==
  LET negative == chars # <<>> /\ Head(chars) = "-"
      rest == IF chars # <<>> /\ Head(chars) \in {"-", "+"} THEN Tail(chars) ELSE chars
  IN  IF rest = <<>> \/ ~IsDigit(Head(rest)) THEN NaN
      ELSE Num(IF negative THEN 0 - ParseDigits(rest, 0) ELSE ParseDigits(rest, 0))

IsNaN(v) == v = NaN

\* what the user can have typed into the number input
InputValues == {<<>>, <<"1", "9">>, <<"-", "5">>}

(* ---------------- PredictionForm: the values a control can take --------- *)
FieldNames == {"indoorTemp", "outdoorTemp", "humidity", "occupancy", "weatherCondition",
               "timeOfDay", "sunlightIntensity", "roomSize", "windowOpen"}
FieldValues(name) ==
  CASE name = "indoorTemp"        -> {26, 31}
    [] name = "outdoorTemp"       -> {30, 18}
    [] name = "humidity"          -> {60, 75}
    [] name = "occupancy"         -> {2, 12}
    [] name = "weatherCondition"  -> {weatherOptions[i].value : i \in 1..Len(weatherOptions)}
    [] name = "timeOfDay"         -> {timeOptions[i].value : i \in 1..Len(timeOptions)}
    [] name = "sunlightIntensity" -> {7, 0}
    [] name = "roomSize"          -> {25, 10, 60}
    [] name = "windowOpen"        -> BOOLEAN

(* ---------------- utils/predictions.ts ---------------- *)
\* Temperatures inside calculateIdealTemperature are counted in hundredths of
\* a degree, which holds every term of the sum exactly for whole-number
\* readings: 0.1 is 10, 0.2 is 20, 0.15 is 15, 0.5 is 50.
Hundredths == 100

\* Math.min
MathMin(a, b) == IF a < b THEN a ELSE b
\* Math.floor and Math.ceil of x hundredths, in whole degrees
MathFloor(x) == x \div Hundredths
MathCeil(x) == 0 - ((0 - x) \div Hundredths)
\* x % m of JavaScript: the remainder has the sign of x
JsRemainder(x, m) == IF x >= 0 THEN x % m ELSE 0 - ((0 - x) % m)

\* (data.outdoorTemp - 24) * 0.1
OutdoorFactor(outdoorTemp) == (outdoorTemp - 24) * 10

HumidityAdjustmentFrom70(humidity) ==
  IF humidity >= 70 THEN 0 - 100
  ELSE IF humidity < 30 THEN 50
  ELSE 0
HumidityAdjustment(humidity) ==
  IF humidity > 70 THEN 0 - 100
  ELSE IF humidity < 30 THEN 50
  ELSE 0

\* Math.min(data.occupancy * 0.2, 2)
OccupancyAdjustment(occupancy) == MathMin(occupancy * 20, 200)

WeatherAdjustment(weatherCondition) ==
  CASE weatherCondition = "sunny" -> 0 - 50
    [] weatherCondition \in {"rainy", "cloudy"} -> 50
    [] weatherCondition \in {"snowy", "stormy"} -> 100
    [] OTHER -> 0

TimeAdjustment(timeOfDay) ==
  CASE timeOfDay = "morning" -> 50
    [] timeOfDay = "afternoon" -> 0 - 50
    [] timeOfDay = "night" -> 100
    [] OTHER -> 0

\* (data.sunlightIntensity / 10) * 1.5
SunlightAdjustment(sunlightIntensity) == sunlightIntensity * 15

RoomSizeAdjustment(roomSize) == IF roomSize > 50 THEN 50 ELSE 0

WindowAdjustment(data) ==
  IF data.windowOpen
    THEN IF data.outdoorTemp > data.indoorTemp THEN 0 - 100 ELSE 50
  ELSE 0

\* idealTemp before the rounding, in hundredths
IdealTemp(data) ==
  LET t0 == 24 * Hundredths
      t1 == t0 + OutdoorFactor(data.outdoorTemp)
      t2 == t1 + HumidityAdjustment(data.humidity)
      t3 == t2 - OccupancyAdjustment(data.occupancy)
      t4 == t3 + WeatherAdjustment(data.weatherCondition)
      t5 == t4 + TimeAdjustment(data.timeOfDay)
      t6 == t5 - SunlightAdjustment(data.sunlightIntensity)
      t7 == t6 + RoomSizeAdjustment(data.roomSize)
  IN  t7 + WindowAdjustment(data)

\* decimal < 0.5 ? Math.floor(idealTemp) : Math.ceil(idealTemp)
RoundIdeal(idealTemp) ==
  LET decimal == JsRemainder(idealTemp, Hundredths)
  IN  IF decimal < 50 THEN MathFloor(idealTemp) ELSE MathCeil(idealTemp)

calculateIdealTemperature(data) == RoundIdeal(IdealTemp(data))

\* The states the two pure functions are applied to: readings on both sides
\* of every threshold, every tag of the two selects and one tag outside each,
\* and the default state.
CallTags(options) == {options[i].value : i \in 1..Len(options)}
CallInputs ==
  [ indoorTemp : {18, 26}, outdoorTemp : {0 - 250, 18, 30}, humidity : {29, 30, 70, 71},
    occupancy : {0, 2, 12},
    weatherCondition : CallTags(weatherOptions) \cup {"hail"},
    timeOfDay : CallTags(timeOptions) \cup {"dusk"},
    sunlightIntensity : {0, 7}, roomSize : {14, 15, 29, 30, 50, 51},
    windowOpen : BOOLEAN ]
    \cup {initialEnvironmentalData}
NoCall == [fn |-> "none"]

(* ---------------- state ---------------- *)
VARIABLES
  environmentalData,     \* App: useState(initialEnvironmentalData)
  predictedTemperature,  \* App: number | null
  customTemperature,     \* App: number | null
  isLoading,             \* App: the busy flag
  error,                 \* App: string | null
  isEditing,             \* TemperatureCard local state
  inputValue,            \* TemperatureCard local state
  requests,              \* calls of getIdealTemperaturePrediction that have not settled
  fetchLog,              \* history: the fetch calls made, in order, by request id
  issued,                \* history: the number of predict actions so far
  edits,                 \* history: the number of form edits so far
  shownFrom,             \* history: the request whose settlement is displayed, 0 if none
  lastExchange,          \* history: what the network delivered to request shownFrom
  callData,              \* the state a pure function is called with
  callResult             \* what the call returned

vars == << environmentalData, predictedTemperature, customTemperature, isLoading, error,
           isEditing, inputValue, requests, fetchLog, issued, edits, shownFrom, lastExchange,
           callData, callResult >>

appVars == << predictedTemperature, customTemperature, isLoading, error >>
cardVars == << isEditing, inputValue >>
netVars == << requests, fetchLog, issued, shownFrom, lastExchange >>
callVars == << callData, callResult >>

Init ==
  /\ environmentalData = initialEnvironmentalData
  /\ predictedTemperature = Null
  /\ customTemperature = Null
  /\ isLoading = FALSE
  /\ error = Null
  /\ isEditing = FALSE
  /\ inputValue = <<>>
  /\ requests = {}
  /\ fetchLog = <<>>
  /\ issued = 0
  /\ edits = 0
  /\ shownFrom = 0
  /\ lastExchange = NoExchange
  /\ callData = initialEnvironmentalData
  /\ callResult = NoCall

(* ---------------- App.handleFormChange, from the form's controls -------- *)
\* None of the form's controls is disabled while a request is outstanding.
handleFormChange(name, value) ==
  /\ edits < MaxEdits
  /\ value # environmentalData[name]
  /\ environmentalData' = [environmentalData EXCEPT ![name] = value]
  /\ edits' = edits + 1
  /\ UNCHANGED << appVars, cardVars, netVars, callVars >>

(* ---------------- App.handlePredict, up to the await -------------------- *)
\* the submit button: disabled={isLoading}
SubmitAlwaysEnabled == TRUE
SubmitEnabled == ~isLoading

\* setIsLoading(true); setError(null); setPredictedTemperature(null)
KeepError ==
  [isLoading |-> TRUE, error |-> error, predictedTemperature |-> Null]
KeepPrevious ==
  [isLoading |-> TRUE, error |-> Null, predictedTemperature |-> predictedTemperature]
ClearPrevious ==
  [isLoading |-> TRUE, error |-> Null, predictedTemperature |-> Null]

handlePredict ==
  /\ SubmitEnabled
  /\ issued < MaxRequests
  /\ isLoading' = ClearPrevious.isLoading
  /\ error' = ClearPrevious.error
  /\ predictedTemperature' = ClearPrevious.predictedTemperature
  \* the card is rendered only while predictedTemperature !== null
  /\ IF ClearPrevious.predictedTemperature = Null
       THEN isEditing' = FALSE /\ inputValue' = <<>>
       ELSE UNCHANGED cardVars
  /\ issued' = issued + 1
  /\ requests' = requests \cup
       {[id |-> issued + 1, input |-> ApiInput(environmentalData), stage |-> "fetch", status |-> 0]}
  /\ fetchLog' = Append(fetchLog, issued + 1)
  /\ shownFrom' = 0
  /\ lastExchange' = NoExchange
  /\ UNCHANGED << environmentalData, customTemperature, edits, callVars >>

(* ---------------- App.handlePredict, after the await -------------------- *)
FailedMessage == "Failed to get prediction. Please try again."

\* the try block: response.predicted_ideal_temperature of the awaited value
CallerTry(completion) ==
  IF completion.thrown THEN completion
  ELSE IF completion.value = Null
    THEN Throw(ErrorObject(NullPropertyMessage("predicted_ideal_temperature")))
  ELSE Return(completion.value.predicted_ideal_temperature)

\* the catch block: err.message || 'Failed to get prediction. Please try again.'
CallerErrorMessage(err) == OrElse(Str(err.message), Str(FailedMessage))

\* the finally block: setIsLoading(false)
LoadingOnlyClearedInTry(thrown) == IF thrown THEN isLoading ELSE FALSE
LoadingAfterSettle(thrown) == FALSE

SettleWithRetry(r, exchange) ==
  LET outcome == CallerTry(getIdealTemperaturePrediction(exchange))
      retry == outcome.thrown /\ Len(fetchLog) <= MaxRequests
  IN  /\ IF outcome.thrown
           THEN /\ error' = CallerErrorMessage(outcome.value)
                /\ UNCHANGED << predictedTemperature, cardVars >>
           ELSE /\ predictedTemperature' = outcome.value
                /\ isEditing' = FALSE /\ inputValue' = <<>>
                /\ UNCHANGED error
      /\ isLoading' = LoadingAfterSettle(outcome.thrown)
      /\ requests' = (requests \ {r}) \cup
           (IF retry THEN {[r EXCEPT !.stage = "fetch", !.status = 0]} ELSE {})
      /\ fetchLog' = IF retry THEN Append(fetchLog, r.id) ELSE fetchLog
      /\ shownFrom' = r.id
      /\ lastExchange' = exchange
      /\ UNCHANGED << environmentalData, customTemperature, issued, edits, callVars >>

Settle(r, exchange) ==
  LET outcome == CallerTry(getIdealTemperaturePrediction(exchange))
  IN  /\ IF outcome.thrown
           THEN /\ error' = CallerErrorMessage(outcome.value)
                /\ UNCHANGED << predictedTemperature, cardVars >>
           ELSE /\ predictedTemperature' = outcome.value
                \* the card mounts with fresh local state
                /\ isEditing' = FALSE /\ inputValue' = <<>>
                /\ UNCHANGED error
      /\ isLoading' = LoadingAfterSettle(outcome.thrown)
      /\ requests' = requests \ {r}
      /\ shownFrom' = r.id
      /\ lastExchange' = exchange
      /\ UNCHANGED << environmentalData, customTemperature, fetchLog, issued, edits, callVars >>

\* fetch rejects: no response at all
FetchRejects(r, m) ==
  /\ r.stage = "fetch"
  /\ Settle(r, NoResponse(m))

\* fetch resolves with the response's status; the body is awaited next
FetchResolves(r, status) ==
  /\ r.stage = "fetch"
  /\ requests' = (requests \ {r}) \cup {[r EXCEPT !.stage = "body", !.status = status]}
  /\ UNCHANGED << environmentalData, appVars, cardVars, fetchLog, issued, edits,
                  shownFrom, lastExchange, callVars >>

\* response.json() settles
BodyArrives(r, body) ==
  /\ r.stage = "body"
  /\ Settle(r, Response(r.status, body))

(* ---------------- TemperatureCard ---------------- *)
\* {predictedTemperature !== null && <TemperatureCard .../>}
CardMounted == predictedTemperature # Null

\* "Set Your Own Temperature"
StartEditing ==
  /\ CardMounted
  /\ ~isEditing
  /\ isEditing' = TRUE
  /\ UNCHANGED << environmentalData, appVars, inputValue, netVars, edits, callVars >>

\* onChange of the card's input
TypeInput(v) ==
  /\ CardMounted
  /\ isEditing
  /\ v # inputValue
  /\ inputValue' = v
  /\ UNCHANGED << environmentalData, appVars, isEditing, netVars, edits, callVars >>

\* App.handleCustomTemperature
handleCustomTemperatureOnly(temp) ==
  /\ customTemperature' = temp
  /\ UNCHANGED predictedTemperature

handleCustomTemperature(temp) ==
  /\ customTemperature' = temp
  /\ predictedTemperature' = temp

\* TemperatureCard.handleSubmit
handleSubmit ==
  /\ CardMounted
  /\ isEditing
  /\ LET temp == ParseFloat(inputValue)
     IN  IF ~IsNaN(temp)
           THEN /\ handleCustomTemperature(temp)
                /\ isEditing' = FALSE
                /\ shownFrom' = 0
                /\ lastExchange' = NoExchange
           ELSE UNCHANGED << customTemperature, predictedTemperature, isEditing, shownFrom,
                             lastExchange >>
  /\ UNCHANGED << environmentalData, isLoading, error, inputValue, requests, fetchLog,
                  issued, edits, callVars >>

(* ---------------- the system ---------------- *)
Next ==
  \/ \E name \in FieldNames : \E value \in FieldValues(name) : handleFormChange(name, value)
  \/ handlePredict
  \/ \E r \in requests : \E m \in FetchFailureMessages : FetchRejects(r, m)
  \/ \E r \in requests : \E status \in Statuses : FetchResolves(r, status)
  \/ \E r \in requests : \E body \in Bodies : BodyArrives(r, body)
  \/ StartEditing
  \/ \E v \in InputValues : TypeInput(v)
  \/ handleSubmit

Spec == Init /\ [][Next]_vars

(* ---------------- the pure functions, applied to every state ------------ *)
\* calculateIdealTemperature(data): reads data, assigns nothing to it
CallCalculate ==
  /\ callResult' = [fn |-> "calculateIdealTemperature",
                    value |-> calculateIdealTemperature(callData),
                    idealTemp |-> IdealTemp(callData),
                    data |-> callData]
  /\ UNCHANGED << environmentalData, appVars, cardVars, netVars, edits, callData >>

\* the mapping of handlePredict: EnvironmentalData -> PredictionInput
CallApiInput ==
  /\ callResult' = [fn |-> "apiInput", value |-> ApiInput(callData)]
  /\ UNCHANGED << environmentalData, appVars, cardVars, netVars, edits, callData >>

InitCall ==
  /\ environmentalData = initialEnvironmentalData
  /\ predictedTemperature = Null
  /\ customTemperature = Null
  /\ isLoading = FALSE
  /\ error = Null
  /\ isEditing = FALSE
  /\ inputValue = <<>>
  /\ requests = {}
  /\ fetchLog = <<>>
  /\ issued = 0
  /\ edits = 0
  /\ shownFrom = 0
  /\ lastExchange = NoExchange
  /\ callData \in CallInputs
  /\ callResult = NoCall

NextCall ==
  \/ CallCalculate
  \/ CallApiInput

SpecCall == InitCall /\ [][NextCall]_vars

(* ======================= properties ======================= *)
\* The display shows the settlement of request shownFrom.
Settled == shownFrom # 0
\* what handlePredict's try block made of the displayed exchange
Outcome == CallerTry(getIdealTemperaturePrediction(lastExchange))
GotResponse == Settled /\ lastExchange.kind = "response"

\* C1: the busy flag is true exactly while a request is outstanding: it is set
\* when a predict action starts and false again once the request has settled,
\* whatever the outcome.
C1_BusyFlagReleased == isLoading <=> (requests # {})

\* C1 witness: a request has settled with a failure and the flag is down again.
C1_Witness == Settled /\ Outcome.thrown /\ requests = {} /\ ~isLoading

\* C2: at most one prediction request is in flight at any time.
C2_SingleInFlight == Cardinality(requests) <= 1

\* C2 witness: a second request is in flight, started after the first settled,
\* and the submit button is disabled.
C2_Witness == issued = 2 /\ Cardinality(requests) = 1 /\ ~SubmitEnabled

\* C3: when no response arrives at all, or the response body is not JSON, the
\* message displayed is the generic unknown-error message.
C3_TransportFailureIsUnknownError ==
  (Settled /\ (\/ lastExchange.kind = "noResponse"
               \/ (lastExchange.kind = "response" /\ lastExchange.body.kind = "nonjson")))
    => error = Str(UnknownErrorMessage)

\* C4: a non-success status with a JSON body carrying an error message m makes
\* getIdealTemperaturePrediction throw an Error with message m, and the caller
\* stores exactly m.
C4_ServerMessageVerbatim ==
  (/\ GotResponse
   /\ ~Ok(lastExchange.status)
   /\ lastExchange.body.kind = "object"
   /\ Truthy(lastExchange.body.error))
    => /\ getIdealTemperaturePrediction(lastExchange)
            = Throw(ErrorObject(lastExchange.body.error.val))
       /\ error = lastExchange.body.error

\* C4 witness: status 400 with {error: "invalid payload"} has settled.
C4_Witness ==
  /\ GotResponse
  /\ lastExchange.status = 400
  /\ lastExchange.body.kind = "object"
  /\ lastExchange.body.error = Str("invalid payload")
  /\ error = Str("invalid payload")

\* C5: a non-success status without a structured error body (not JSON, null, or
\* an object without an error message) is reported as the generic message with
\* the status code.
C5_StatusMessageWithoutErrorBody ==
  (/\ GotResponse
   /\ ~Ok(lastExchange.status)
   /\ \/ lastExchange.body.kind \in {"nonjson", "null"}
      \/ (lastExchange.body.kind = "object" /\ ~Truthy(lastExchange.body.error)))
    => error = Str(StatusMessage(lastExchange.status))

\* C6: a JSON body carrying an error message is a failure whatever the status:
\* the message is displayed and no predicted temperature is set.
C6_ErrorPayloadIsFailure ==
  (/\ GotResponse
   /\ lastExchange.body.kind = "object"
   /\ Truthy(lastExchange.body.error))
    => /\ error = lastExchange.body.error
       /\ predictedTemperature = Null

\* C7: when the request fails (handlePredict's catch block runs), a non-empty
\* error message is stored and the predicted temperature is null.
C7_FailureClearsPrediction ==
  (Settled /\ Outcome.thrown)
    => /\ error # Null
       /\ Truthy(error)
       /\ predictedTemperature = Null

\* C7 witness: a request failed after an earlier prediction had been displayed
\* and overridden by hand.
C7_Witness ==
  /\ Settled /\ Outcome.thrown
  /\ issued = 2
  /\ customTemperature # Null
  /\ predictedTemperature = Null

\* C8: what is displayed of a request is of the most recently issued one, and
\* no older request is still outstanding to overwrite it.
C8_LatestRequestShown ==
  /\ Settled => shownFrom = issued
  /\ \A r \in requests : r.id = issued

\* C8 witness: the second request's settlement is displayed.
C8_Witness == shownFrom = 2 /\ issued = 2 /\ requests = {}

\* C9: the environmental-state record changes only while no request is
\* outstanding.
C9_NoEditInFlight == [][environmentalData' # environmentalData => requests = {}]_vars

\* C10: each predict action makes exactly one fetch call: the calls made are
\* those of requests 1..issued, once each.
C10_OneFetchPerPredict ==
  /\ Len(fetchLog) = issued
  /\ \A i \in 1..Len(fetchLog) : fetchLog[i] = i

\* C10 witness: two predict actions, the first of which failed, have made two
\* fetch calls and both have settled.
C10_Witness ==
  /\ issued = 2 /\ Len(fetchLog) = 2 /\ requests = {}
  /\ Settled /\ Outcome.thrown /\ customTemperature = Null

(* ---------------- properties of the pure functions (SpecCall) ----------- *)
Calculated == callResult.fn = "calculateIdealTemperature"
Mapped == callResult.fn = "apiInput"

\* The rule set of C11 in hundredths of a degree, written from its wording.
\* The fractional part is the remainder idealTemp % 1, which has the sign of
\* idealTemp.
C11_Degrees == (0 - 40) .. 40
C11_Sum(d) ==
  2400
    + (d.outdoorTemp - 24) * 10
    + (IF d.humidity > 70 THEN 0 - 100 ELSE IF d.humidity < 30 THEN 50 ELSE 0)
    - (IF d.occupancy * 20 <= 200 THEN d.occupancy * 20 ELSE 200)
    + (IF d.weatherCondition = "sunny" THEN 0 - 50
       ELSE IF d.weatherCondition = "rainy" \/ d.weatherCondition = "cloudy" THEN 50
       ELSE IF d.weatherCondition = "snowy" \/ d.weatherCondition = "stormy" THEN 100
       ELSE 0)
    + (IF d.timeOfDay = "morning" THEN 50
       ELSE IF d.timeOfDay = "afternoon" THEN 0 - 50
       ELSE IF d.timeOfDay = "night" THEN 100
       ELSE 0)
    - d.sunlightIntensity * 15
    + (IF d.roomSize > 50 THEN 50 ELSE 0)
    + (IF ~d.windowOpen THEN 0
       ELSE IF d.outdoorTemp > d.indoorTemp THEN 0 - 100 ELSE 50)
C11_Floor(x) == CHOOSE n \in C11_Degrees : n * 100 <= x /\ x < (n + 1) * 100
C11_Ceil(x) == CHOOSE n \in C11_Degrees : (n - 1) * 100 < x /\ x <= n * 100
C11_Fraction(x) == x - 100 * (IF x >= 0 THEN C11_Floor(x) ELSE C11_Ceil(x))
C11_Rounded(x) == IF C11_Fraction(x) < 50 THEN C11_Floor(x) ELSE C11_Ceil(x)

C12_WeatherCategory ==
  Mapped =>
    LET tag == callData.weatherCondition
        sent == callResult.value.Weather_Condition
    IN  /\ sent \in {Sunny, Cloudy, Rainy, Snowy, Foggy}
        /\ sent = CASE tag = "sunny" -> Sunny
                    [] tag = "cloudy" -> Cloudy
                    [] tag = "rainy" -> Rainy
                    [] tag = "snowy" -> Snowy
                    [] tag = "foggy" -> Foggy
                    [] tag = "partlyCloudy" -> Cloudy
                    [] tag = "windy" -> Cloudy
                    [] tag = "stormy" -> Rainy
                    [] OTHER -> Cloudy

\* C12 witness: a stormy state has been mapped, to Rainy.
C12_Witness ==
  /\ Mapped
  /\ callData.weatherCondition = "stormy"
  /\ callResult.value.Weather_Condition = Rainy

\* C13: each of the four time tags is sent as the first word of its label,
\* which is its own category (morning->Morning, afternoon->Afternoon,
\* evening->Evening, night->Night), so the default is not taken for them; any
\* other tag is sent as Afternoon.
C13_TimeCategory ==
  Mapped =>
    LET tag == callData.timeOfDay
        sent == callResult.value.Time_of_Day
        own == CASE tag = "morning" -> Morning
                 [] tag = "afternoon" -> Afternoon
                 [] tag = "evening" -> Evening
                 [] tag = "night" -> Night
                 [] OTHER -> <<>>
    IN  IF own # <<>>
          THEN /\ sent = own
               /\ Split(Find(timeOptions, tag).label, " ")[1] = own
          ELSE sent = Afternoon

\* C13 witness: a night state has been mapped, to Night.
C13_Witness ==
  /\ Mapped
  /\ callData.timeOfDay = "night"
  /\ callResult.value.Time_of_Day = Night

\* C14: the room-size bucket is Small below 15, Medium from 15 and below 30,
\* Large from 30; a room from 30 to 50 is Large and gets no adjustment from the
\* heuristic, whose rule starts above 50.
C14_RoomSizeBucket ==
  Mapped =>
    LET roomSize == callData.roomSize
        sent == callResult.value.Room_Size
    IN  /\ roomSize < 15 => sent = "Small"
        /\ (15 <= roomSize /\ roomSize < 30) => sent = "Medium"
        /\ roomSize >= 30 => sent = "Large"
        /\ (30 <= roomSize /\ roomSize <= 50) => RoomSizeAdjustment(roomSize) = 0
        /\ roomSize > 50 => RoomSizeAdjustment(roomSize) = 50

\* C14 witness: a room of exactly 30 has been mapped, to Large, and a room of
\* 30 gets no heuristic adjustment.
C14_Witness ==
  /\ Mapped
  /\ callData.roomSize = 30
  /\ callResult.value.Room_Size = "Large"
  /\ RoomSizeAdjustment(callData.roomSize) = 0

\* the whole number nearest to x hundredths, a half going up
C16_Nearest(x) == CHOOSE n \in C11_Degrees : n * 100 - 50 <= x /\ x < n * 100 + 50

\* C16: the value returned is the whole number nearest to the unrounded ideal
\* value, a fractional part of exactly 0.5 going up, also when the unrounded
\* value is negative.
C16_RoundsToNearest == Calculated => callResult.value = C16_Nearest(callResult.idealTemp)

(* ---------------- properties of the caller, continued (Spec) ------------ *)
\* a step of handleSubmit that passes a number on: the card leaves editing
\* without a predict action
C15_OverrideStep == isEditing /\ ~isEditing' /\ issued' = issued

\* C15: a manual override with a numeric entry v makes the displayed result
\* exactly v; a submit of a non-numeric entry changes neither the result nor
\* the custom value; and with no request outstanding the displayed result
\* changes only by a predict action or an override.
C15_ManualOverride ==
  [][ /\ C15_OverrideStep =>
           /\ ~IsNaN(ParseFloat(inputValue))
           /\ predictedTemperature' = ParseFloat(inputValue)
           /\ customTemperature' = ParseFloat(inputValue)
      /\ (isEditing /\ IsNaN(ParseFloat(inputValue)) /\ issued' = issued) =>
           UNCHANGED << predictedTemperature, customTemperature, isEditing >>
      /\ (requests = {} /\ predictedTemperature' # predictedTemperature) =>
           (issued' # issued \/ C15_OverrideStep)
    ]_vars

\* C15 witness: the override 19 is displayed in place of a prediction.
C15_Witness ==
  /\ predictedTemperature = Num(19)
  /\ customTemperature = Num(19)
  /\ inputValue = <<"1", "9">>
  /\ ~isEditing
  /\ issued >= 1 /\ requests = {} /\ shownFrom = 0

\* C17: an error message and a predicted temperature are never both present,
\* and while a request is in flight both are null.
C17_ErrorExcludesPrediction ==
  /\ error # Null => predictedTemperature = Null
  /\ requests # {} => (error = Null /\ predictedTemperature = Null)

\* C17 witness: after a prediction was displayed and overridden by hand and a
\* form field edited, the next request failed: the error is shown and no
\* temperature.
C17_Witness ==
  /\ error # Null /\ predictedTemperature = Null
  /\ customTemperature # Null /\ edits = 1
  /\ requests = {} /\ ~isLoading

====
